---- MODULE Spec2Model ----
(***************************************************************************)
(* Model of the Bluesky bot of src/main.py: the main control flow          *)
(* (BlueskyBot.run, daily_post, get_assistant_response) and the follow     *)
(* worker (BlueskyBot.follow_cycle, check_criteria, follow_user,           *)
(* get_suggestions) over the followed_users ledger.                        *)
(*                                                                         *)
(* Time.  The code reads the clock to compare it with two timestamps: with *)
(* start_time + 24h (lines 261-263) and with followed_at plus the unfollow *)
(* period (the sweep).  The model keeps the outcome of each comparison in  *)
(* place of the timestamp: window_over says that start_time + 24h is past, *)
(* row.due that the row has reached UNFOLLOW_AFTER_DAYS.  Both become true *)
(* while time passes (a sleep, the waits of a retried call) and at no      *)
(* other moment; window_over is false again when start_time is assigned.   *)
(* A thread blocked in time.sleep is a state of its own.  In the same way  *)
(* carried counts the rows of the window before the last reset that are    *)
(* less than 24 hours old, and unpaced says that no follow delay has been  *)
(* slept since the last client.follow that returned.                       *)
(*                                                                         *)
(* Store.  Every statement executed on the sqlite connection either works  *)
(* or raises (closed connection, locked file, thread check, I/O error);    *)
(* on a closed connection it always raises.  An INSERT whose execute or    *)
(* commit raises leaves no row behind.                                     *)
(*                                                                         *)
(* DAILY_FOLLOW_LIMIT is 20 in the source; the model runs the same code    *)
(* with the limit scaled to 2 so that a window can be filled by the        *)
(* accounts of Users.                                                      *)
(***************************************************************************)
EXTENDS Integers, Sequences, FiniteSets, TLC

\* ------------------------------------------------------------------ bounds
MaxBatch == 2

\* --------------------------------------------------------------- constants
DAILY_FOLLOW_LIMIT == 2
FOLLOW_DELAY_MIN == 60
FOLLOW_DELAY_MAX == 4320
UNFOLLOW_AFTER_DAYS == 5
REQUIRED_TERMS == << <<"b", "s", "k", "y">>, <<"s", "k", "y">> >>
EMPTY_SLEEP == 3600
ERROR_PAUSE == 300
GEN_BACKOFF == 3600
FOLLOW_ATTEMPTS == 2
FETCH_ATTEMPTS == 3
DAY == 24 * 3600

\* ------------------------------------------------------------ the accounts
\* The accounts the suggestion endpoint can return: a did and a handle.
Users ==
  { [did |-> "d1", handle |-> <<"s", "k", "y">>],
    [did |-> "d2", handle |-> <<"B", "S", "K", "Y">>],
    [did |-> "d3", handle |-> <<"x", "S", "k", "y", "x">>],
    [did |-> "d4", handle |-> <<"s", "k", "x", "y">>] }

DIDs == {u.did : u \in Users}

\* str.lower() on the characters used in the handles.
LowerChar(c) ==
  CASE c = "B" -> "b"
    [] c = "S" -> "s"
    [] c = "K" -> "k"
    [] c = "Y" -> "y"
    [] OTHER -> c

Lower(h) == [i \in 1..Len(h) |-> LowerChar(h[i])]

\* Python's `term in handle` on strings: substring test.
Contains(h, t) ==
  \E i \in 0..(Len(h) - Len(t)) : \A j \in 1..Len(t) : h[i + j] = t[j]

\* The test of line 189 without .lower().
HandleMatches_case_sensitive(user) ==
  \E k \in 1..Len(REQUIRED_TERMS) : Contains(user.handle, REQUIRED_TERMS[k])

\* Line 189: any(term in user.handle.lower() for term in REQUIRED_TERMS).
HandleMatches(user) ==
  \E k \in 1..Len(REQUIRED_TERMS) : Contains(Lower(user.handle), REQUIRED_TERMS[k])

\* --------------------------------------------------------------- the ledger
NoRow == [present |-> FALSE]

Row(handle, due, unfollowed) ==
  [present |-> TRUE, handle |-> handle, due |-> due, unfollowed |-> unfollowed]

IsActive(l, did) == l[did].present /\ ~l[did].unfollowed

\* The rows that have not reached the unfollow period yet.
NotDue(l) == {x \in DIDs : l[x].present /\ ~l[x].due}

\* The ledger after some time: the rows of reached have reached the period.
Aged(l, reached) ==
  [x \in DIDs |-> IF x \in reached THEN [l[x] EXCEPT !.due = TRUE] ELSE l[x]]

VARIABLES
  mpc,            \* position of the main thread in run()
  conn_open,      \* self.conn is open
  gen,            \* outcome of the get_assistant_response call of daily_post
  main_sleeping,  \* seconds of the time.sleep daily_post is blocked in (0: none)
  exit_cause,     \* what ended run(): "none", "KeyboardInterrupt", "SystemExit"
  wpc,            \* position of the follow worker in follow_cycle()
  follow_count,   \* follow_cycle's follow_count
  window_over,    \* start_time + 24h is past
  suggestions,    \* what is left of `for user in suggestions`
  attempt,        \* number of the running follow_user attempt
  exc,            \* exception on its way to follow_cycle's handler
  sleeping,       \* seconds of the time.sleep the worker is blocked in (0: none)
  unpaced,        \* client.follow has returned and no follow delay was slept since
  ledger,         \* table followed_users, by did
  following,      \* dids the account follows on the remote service
  follow_ok,      \* dids for which client.follow has ever returned
  window_records, \* rows committed by follow_user since the last counter reset
  carried         \* rows committed before the last reset and less than 24h ago

mainVars == <<mpc, conn_open, gen, main_sleeping, exit_cause>>
workerVars == <<wpc, follow_count, window_over, suggestions, attempt, exc, sleeping, unpaced>>
storeVars == <<ledger, following, follow_ok, window_records, carried>>
vars == <<mainVars, workerVars, storeVars>>

\* ------------------------------------------------------------------- Init
Init ==
  /\ mpc = "schedule"
  /\ conn_open = TRUE
  /\ gen = "none"
  /\ main_sleeping = 0
  /\ exit_cause = "none"
  /\ wpc = "idle"
  /\ follow_count = 0
  /\ window_over = FALSE
  /\ suggestions = <<>>
  /\ attempt = 0
  /\ exc = "none"
  /\ sleeping = 0
  /\ unpaced = FALSE
  /\ ledger = [x \in DIDs |-> NoRow]
  /\ following = {}
  /\ follow_ok = {}
  /\ window_records = 0
  /\ carried = 0

\* Outcome of a statement on the sqlite connection: TRUE when it works.
DbOutcomes == IF conn_open THEN BOOLEAN ELSE {FALSE}

\* ------------------------------------------------------------ main thread
\* What the two requests of get_assistant_response can do.
GenOutcomes ==
  { "token_request_error", "token_missing_key", "token_invalid_json",
    "token_not_a_dict",
    "completion_request_error", "completion_missing_key",
    "completion_no_choices", "completion_invalid_json",
    "empty_content", "content" }

GenFailures == GenOutcomes \ {"content"}

\* Result of get_assistant_response: "SystemExit" (sys.exit(1) raised),
\* "None", "" (empty text) or "text".
get_assistant_response(o) ==
  CASE o \in {"token_request_error", "token_missing_key", "token_invalid_json"}
         -> "SystemExit"
    [] o = "token_not_a_dict" -> "None"
    [] o \in {"completion_request_error", "completion_missing_key",
              "completion_no_choices", "completion_invalid_json"} -> "None"
    [] o = "empty_content" -> ""
    [] OTHER -> "text"

\* Python truth value of post_text in `if post_text:`.
Truthy(post_text) == post_text \notin {"None", ""}

\* run(), lines 273-274: wait_time = schedule_next_post(); time.sleep(wait_time).
schedule_next_post ==
  /\ mpc = "schedule"
  /\ \E reached \in SUBSET NotDue(ledger) : ledger' = Aged(ledger, reached)
  /\ mpc' = "post"
  /\ UNCHANGED <<conn_open, gen, main_sleeping, exit_cause>>
  /\ UNCHANGED <<workerVars, following, follow_ok, window_records, carried>>

\* run(), line 275, daily_post lines 215-227: the text is generated; a text
\* is published (a failure to publish is logged), no text starts the one-hour
\* sleep, and sys.exit(1) unwinds through run(), whose finally clause closes
\* the connection.
daily_post ==
  /\ mpc = "post"
  /\ \E o \in GenOutcomes :
       LET post_text == get_assistant_response(o) IN
       /\ gen' = o
       /\ CASE post_text = "SystemExit" ->
                 /\ conn_open' = FALSE
                 /\ exit_cause' = "SystemExit"
                 /\ mpc' = "closing"
                 /\ UNCHANGED main_sleeping
            [] Truthy(post_text) /\ post_text # "SystemExit" ->
                 /\ mpc' = "publish"
                 /\ UNCHANGED <<conn_open, exit_cause, main_sleeping>>
            [] OTHER ->
                 /\ main_sleeping' = GEN_BACKOFF
                 /\ mpc' = "backoff"
                 /\ UNCHANGED <<conn_open, exit_cause>>
  /\ UNCHANGED <<workerVars, storeVars>>

\* daily_post, lines 221-224: post_to_bluesky returns or raises; both ways
\* daily_post returns.
post_to_bluesky ==
  /\ mpc = "publish"
  /\ mpc' = "start"
  /\ gen' = "none"
  /\ UNCHANGED <<conn_open, main_sleeping, exit_cause>>
  /\ UNCHANGED <<workerVars, storeVars>>

\* daily_post, line 227: the one-hour sleep ends and daily_post returns.
generation_backoff ==
  /\ mpc = "backoff"
  /\ \E reached \in SUBSET NotDue(ledger) : ledger' = Aged(ledger, reached)
  /\ main_sleeping' = 0
  /\ mpc' = "start"
  /\ gen' = "none"
  /\ UNCHANGED <<conn_open, exit_cause>>
  /\ UNCHANGED <<workerVars, following, follow_ok, window_records, carried>>

\* run() starting the thread and going round the loop without joining it.
start_thread_no_join ==
  /\ mpc = "start"
  /\ mpc' = "schedule"
  /\ wpc' = "sweep"
  /\ follow_count' = 0
  /\ window_over' = FALSE
  /\ window_records' = 0
  /\ carried' = 0
  /\ unpaced' = FALSE
  /\ UNCHANGED <<conn_open, gen, main_sleeping, exit_cause>>
  /\ UNCHANGED <<suggestions, attempt, exc, sleeping, ledger, following, follow_ok>>

\* run(), lines 277-279: the worker thread is started and run() joins it.
\* follow_cycle() begins with follow_count = 0 and start_time = now.
start_thread ==
  /\ mpc = "start"
  /\ mpc' = "join"
  /\ wpc' = "sweep"
  /\ follow_count' = 0
  /\ window_over' = FALSE
  /\ window_records' = 0
  /\ carried' = 0
  /\ unpaced' = FALSE
  /\ UNCHANGED <<conn_open, gen, main_sleeping, exit_cause>>
  /\ UNCHANGED <<suggestions, attempt, exc, sleeping, ledger, following, follow_ok>>

\* run(), lines 281-284: KeyboardInterrupt in the main thread, then the
\* finally clause closes the connection.
interrupt ==
  /\ mpc \in {"schedule", "post", "publish", "backoff", "start", "join"}
  /\ mpc' = "closing"
  /\ conn_open' = FALSE
  /\ exit_cause' = "KeyboardInterrupt"
  /\ UNCHANGED <<gen, main_sleeping, workerVars, storeVars>>

\* run() has returned: the interpreter exits, and the daemon thread and its
\* locals with it.
process_exit ==
  /\ mpc = "closing"
  /\ mpc' = "exited"
  /\ wpc' = "idle"
  /\ follow_count' = 0
  /\ window_over' = FALSE
  /\ suggestions' = <<>>
  /\ attempt' = 0
  /\ exc' = "none"
  /\ sleeping' = 0
  /\ window_records' = 0
  /\ carried' = 0
  /\ unpaced' = FALSE
  /\ UNCHANGED <<conn_open, gen, main_sleeping, exit_cause>>
  /\ UNCHANGED <<ledger, following, follow_ok>>

\* ---------------------------------------------------------- follow worker
\* The worker thread runs from start() until the process exits.
WorkerAlive == wpc # "idle" /\ mpc \in {"join", "closing"}

\* The loop resuming after the sweep instead of before it.
LoopHead_after_sweep == "quota"

\* Where `while True` resumes: the first statement of the loop body.
LoopHead == "sweep"

\* Time passes for the worker: the end of the window and the unfollow
\* period of any row may be reached meanwhile, and follows made before
\* start_time may become 24 hours old; they all are once the window is over.
TimePasses ==
  /\ window_over' \in {window_over, TRUE}
  /\ \E reached \in SUBSET NotDue(ledger) : ledger' = Aged(ledger, reached)
  /\ carried' \in {k \in 0..carried : window_over' => k = 0}

\* Bounded suggestion batches, and random.shuffle of one.
Batches == UNION {[1..n -> Users] : n \in 0..MaxBatch}

Shuffles(b) ==
  {[i \in 1..Len(b) |-> b[p[i]]] : p \in Permutations(1..Len(b))}

\* Rows check_unfollows finds due: active, followed_at <= now - UNFOLLOW_AFTER_DAYS.
DueForUnfollow(l) == {x \in DIDs : IsActive(l, x) /\ l[x].due}

\* follow_cycle, line 235: check_unfollows().  Every due row is sent an
\* unfollow; the rows whose unfollow worked are marked, the others stay.
check_unfollows ==
  /\ WorkerAlive
  /\ wpc = "sweep"
  /\ \E dbok \in DbOutcomes :
       IF dbok
         THEN \E done \in SUBSET DueForUnfollow(ledger) :
                /\ ledger' = [x \in DIDs |->
                                IF x \in done
                                  THEN [ledger[x] EXCEPT !.unfollowed = TRUE]
                                  ELSE ledger[x]]
                /\ following' = following \ done
                /\ wpc' = "quota"
                /\ UNCHANGED exc
         ELSE /\ wpc' = "except"
              /\ exc' = "SweepError"
              /\ UNCHANGED <<ledger, following>>
  /\ UNCHANGED <<follow_count, window_over, suggestions, attempt, sleeping, unpaced>>
  /\ UNCHANGED <<mainVars, follow_ok, window_records, carried>>

\* follow_cycle, lines 237-244: the quota allows a fetch.  get_suggestions
\* is tried FETCH_ATTEMPTS times; an empty batch starts the one-hour sleep,
\* another one is shuffled and iterated.
fetch_suggestions ==
  /\ WorkerAlive
  /\ wpc = "quota"
  /\ follow_count < DAILY_FOLLOW_LIMIT
  /\ \E fails \in 0..FETCH_ATTEMPTS :
       /\ IF fails > 0 THEN TimePasses ELSE UNCHANGED <<window_over, ledger, carried>>
       /\ IF fails = FETCH_ATTEMPTS
            THEN /\ wpc' = "except"
                 /\ exc' = "RetryError"
                 /\ UNCHANGED <<suggestions, sleeping>>
            ELSE \E batch \in Batches :
                   IF batch = <<>>
                     THEN /\ sleeping' = EMPTY_SLEEP
                          /\ wpc' = "sleep_empty"
                          /\ UNCHANGED <<suggestions, exc>>
                     ELSE \E s \in Shuffles(batch) :
                            /\ suggestions' = s
                            /\ wpc' = "loop"
                            /\ UNCHANGED <<sleeping, exc>>
  /\ UNCHANGED <<follow_count, attempt, unpaced>>
  /\ UNCHANGED <<mainVars, following, follow_ok, window_records>>

\* follow_cycle, lines 241-242: the one-hour sleep ends; continue.
empty_sleep ==
  /\ WorkerAlive
  /\ wpc = "sleep_empty"
  /\ TimePasses
  /\ sleeping' = 0
  /\ wpc' = LoopHead
  /\ UNCHANGED <<follow_count, suggestions, attempt, exc, unpaced>>
  /\ UNCHANGED <<mainVars, following, follow_ok, window_records>>

\* Sign of (start_time + timedelta(hours=24) - datetime.now()).total_seconds().
RemainingSign(over) == IF over THEN "negative" ELSE "positive"

\* follow_cycle, lines 260-263: the quota is used up.  time.sleep raises
\* ValueError on a negative length; otherwise the worker sleeps up to the
\* boundary start_time + 24h, which is DAY seconds at most.
quota_exhausted ==
  /\ WorkerAlive
  /\ wpc = "quota"
  /\ ~(follow_count < DAILY_FOLLOW_LIMIT)
  /\ IF RemainingSign(window_over) = "negative"
         THEN /\ wpc' = "except"
              /\ exc' = "ValueError"
              /\ UNCHANGED sleeping
         ELSE /\ sleeping' = DAY
              /\ wpc' = "sleep_quota"
              /\ UNCHANGED exc
  /\ UNCHANGED <<follow_count, window_over, suggestions, attempt, unpaced>>
  /\ UNCHANGED <<mainVars, storeVars>>

\* follow_cycle, lines 263-265: the sleep ends at the boundary start_time +
\* 24h and the counters are reset.  The follows of the window that ends were
\* made after start_time, less than 24 hours ago; those before it were not.
quota_reset ==
  /\ WorkerAlive
  /\ wpc = "sleep_quota"
  /\ \E reached \in SUBSET NotDue(ledger) : ledger' = Aged(ledger, reached)
  /\ sleeping' = 0
  /\ follow_count' = 0
  /\ window_over' = FALSE
  /\ window_records' = 0
  /\ carried' = window_records
  /\ wpc' = LoopHead
  /\ UNCHANGED <<suggestions, attempt, exc, unpaced>>
  /\ UNCHANGED <<mainVars, following, follow_ok>>

\* check_criteria with the SELECT testing unfollowed = 1.
check_criteria_unfollowed_rows(user, l, dbok) ==
  IF ~HandleMatches(user) THEN FALSE
  ELSE IF ~dbok THEN FALSE
  ELSE ~(l[user.did].present /\ l[user.did].unfollowed)

\* check_criteria(user), lines 187-196; dbok: the SELECT works.
check_criteria(user, l, dbok) ==
  IF ~HandleMatches(user) THEN FALSE
  ELSE IF ~dbok THEN FALSE
  ELSE ~IsActive(l, user.did)

\* The for loop moves on to the next user; when the batch is used up the
\* `while True` body starts again (line 257 is false for a used-up batch).
NextPc(rest) == IF rest = <<>> THEN LoopHead ELSE "loop"

\* Line 254 with the break left out.
QuotaReached_no_break(count) == FALSE

\* Line 254: break once the quota is reached.
QuotaReached(count) == count >= DAILY_FOLLOW_LIMIT

\* follow_cycle, lines 246-247: the next user of the batch is filtered.
filter_user ==
  /\ WorkerAlive
  /\ wpc = "loop"
  /\ \E dbok \in DbOutcomes :
       IF check_criteria(Head(suggestions), ledger, dbok)
         THEN /\ wpc' = "follow"
              /\ attempt' = 1
              /\ UNCHANGED suggestions
         ELSE /\ suggestions' = Tail(suggestions)
              /\ wpc' = NextPc(Tail(suggestions))
              /\ UNCHANGED attempt
  /\ UNCHANGED <<follow_count, window_over, exc, sleeping, unpaced>>
  /\ UNCHANGED <<mainVars, storeVars>>

\* What client.follow can do.
FollowOutcomes == {"ok", "RateLimitError", "error"}

\* The retry decorator stopping one attempt later.
MayRetry_one_more(n) == n < FOLLOW_ATTEMPTS + 1

\* tenacity: another attempt is made after a raise while attempts are left.
MayRetry(n) == n < FOLLOW_ATTEMPTS

\* follow_user with the INSERT placed before client.follow.
follow_user_call_insert_first ==
  /\ WorkerAlive
  /\ wpc = "follow"
  /\ ledger' = [ledger EXCEPT ![Head(suggestions).did] =
                  Row(Head(suggestions).handle, FALSE, FALSE)]
  /\ wpc' = "insert"
  /\ UNCHANGED <<follow_count, window_over, suggestions, attempt, exc, sleeping, unpaced>>
  /\ UNCHANGED <<mainVars, following, follow_ok, window_records, carried>>

\* follow_user, line 201 and lines 207-212: one attempt of client.follow.
\* RateLimitError is re-raised to the retry decorator, which tries again or
\* gives up with RetryError; any other exception makes follow_user return
\* False.
follow_user_call ==
  /\ WorkerAlive
  /\ wpc = "follow"
  /\ \E r \in FollowOutcomes :
       LET user == Head(suggestions) IN
       CASE r = "ok" ->
              /\ following' = following \cup {user.did}
              /\ follow_ok' = follow_ok \cup {user.did}
              /\ unpaced' = TRUE
              /\ wpc' = "insert"
              /\ UNCHANGED <<suggestions, attempt, exc, window_over, ledger, carried>>
         [] r = "RateLimitError" ->
              IF MayRetry(attempt)
                THEN /\ TimePasses
                     /\ attempt' = attempt + 1
                     /\ UNCHANGED <<wpc, suggestions, exc, following, follow_ok, unpaced>>
                ELSE /\ wpc' = "except"
                     /\ exc' = "RetryError"
                     /\ suggestions' = <<>>
                     /\ attempt' = 0
                     /\ UNCHANGED <<window_over, ledger, carried, following, follow_ok, unpaced>>
         [] OTHER ->
              /\ suggestions' = Tail(suggestions)
              /\ wpc' = NextPc(Tail(suggestions))
              /\ attempt' = 0
              /\ UNCHANGED <<exc, window_over, ledger, carried, following, follow_ok, unpaced>>
  /\ UNCHANGED <<follow_count, sleeping>>
  /\ UNCHANGED <<mainVars, window_records>>

\* The INSERT of line 202 works when the statement runs and no row has the did
\* (did is the primary key).
InsertWorks(l, did, dbok) == dbok /\ ~l[did].present

\* random.randint(FOLLOW_DELAY_MIN, FOLLOW_DELAY_MAX): the ends and the middle.
Delays == {FOLLOW_DELAY_MIN, (FOLLOW_DELAY_MIN + FOLLOW_DELAY_MAX) \div 2, FOLLOW_DELAY_MAX}

\* follow_user, lines 202-206 and 210-212, follow_cycle, lines 248-252: the
\* row is inserted and committed, the follow counted and the random sleep
\* started; an INSERT that raises makes follow_user return False.
follow_user_insert ==
  /\ WorkerAlive
  /\ wpc = "insert"
  /\ \E dbok \in DbOutcomes :
       LET user == Head(suggestions) IN
       IF InsertWorks(ledger, user.did, dbok)
         THEN /\ ledger' = [ledger EXCEPT ![user.did] = Row(user.handle, FALSE, FALSE)]
              /\ follow_count' = follow_count + 1
              /\ window_records' = window_records + 1
              /\ \E delay \in Delays : sleeping' = delay
              /\ wpc' = "sleep_delay"
              /\ UNCHANGED <<suggestions, attempt>>
         ELSE /\ suggestions' = Tail(suggestions)
              /\ wpc' = NextPc(Tail(suggestions))
              /\ attempt' = 0
              /\ UNCHANGED <<ledger, follow_count, window_records, sleeping>>
  /\ UNCHANGED <<window_over, exc, carried, unpaced>>
  /\ UNCHANGED <<mainVars, following, follow_ok>>

\* follow_cycle, lines 252-255: the sleep after a follow ends; break when the
\* quota is reached, otherwise the next user.
follow_delay ==
  /\ WorkerAlive
  /\ wpc = "sleep_delay"
  /\ TimePasses
  /\ sleeping' = 0
  /\ IF QuotaReached(follow_count)
       THEN /\ suggestions' = <<>>
            /\ wpc' = LoopHead
       ELSE /\ suggestions' = Tail(suggestions)
            /\ wpc' = NextPc(Tail(suggestions))
  /\ attempt' = 0
  /\ unpaced' = FALSE
  /\ UNCHANGED <<follow_count, exc>>
  /\ UNCHANGED <<mainVars, following, follow_ok, window_records>>

\* The handler logging the exception and raising it again: the thread ends.
cycle_error_reraise ==
  /\ WorkerAlive
  /\ wpc = "except"
  /\ wpc' = "idle"
  /\ UNCHANGED <<follow_count, window_over, suggestions, attempt, exc, sleeping, unpaced>>
  /\ UNCHANGED <<mainVars, storeVars>>

\* follow_cycle, lines 266-268: the handler of the loop body logs the
\* exception and starts the five-minute sleep.
cycle_error ==
  /\ WorkerAlive
  /\ wpc = "except"
  /\ sleeping' = ERROR_PAUSE
  /\ wpc' = "sleep_pause"
  /\ UNCHANGED <<follow_count, window_over, suggestions, attempt, exc, unpaced>>
  /\ UNCHANGED <<mainVars, storeVars>>

\* follow_cycle, line 268 and line 233: the pause ends and the loop goes on.
error_pause ==
  /\ WorkerAlive
  /\ wpc = "sleep_pause"
  /\ TimePasses
  /\ sleeping' = 0
  /\ exc' = "none"
  /\ wpc' = LoopHead
  /\ UNCHANGED <<follow_count, suggestions, attempt, unpaced>>
  /\ UNCHANGED <<mainVars, following, follow_ok, window_records>>

\* ------------------------------------------------------------ specification
MainNext ==
  \/ schedule_next_post
  \/ daily_post
  \/ post_to_bluesky
  \/ generation_backoff
  \/ start_thread

WorkerNext ==
  \/ check_unfollows
  \/ fetch_suggestions
  \/ empty_sleep
  \/ quota_exhausted
  \/ quota_reset
  \/ filter_user
  \/ follow_user_call
  \/ follow_user_insert
  \/ follow_delay
  \/ cycle_error
  \/ error_pause

Next ==
  \/ MainNext
  \/ WorkerNext
  \/ interrupt
  \/ process_exit

Spec == Init /\ [][Next]_vars

\* The sweep marks the row of x unfollowed: its remote unfollow worked.
UnfollowDone(x) ==
  /\ check_unfollows
  /\ IsActive(ledger, x)
  /\ ledger'[x].unfollowed

\* Scheduling: a thread that can take a step takes one, and the interpreter
\* exits once run() has returned.  The interrupt is external and may never
\* come.  An unfollow that is tried again and again works in the end.
FairSpec ==
  /\ Spec
  /\ WF_vars(MainNext)
  /\ WF_vars(WorkerNext)
  /\ WF_vars(process_exit)
  /\ \A x \in DIDs : SF_vars(UnfollowDone(x))

\* ------------------------------------------------------------------ claims
\* The user follow_user is running for.
Candidate == Head(suggestions)

\* A step of the worker thread (the exit of the process is none).
WorkerMoves == wpc' # wpc /\ mpc' # "exited"

InFollowUser == wpc \in {"follow", "insert"}

\* C1: no double follow.  While the ledger holds an active row for an
\* account, check_criteria returns False for every user with that did,
\* whether or not its SELECT works, and follow_user is never running (no
\* client.follow call is made) for an account that has an active row.
C1_NoDoubleFollow ==
  /\ \A u \in Users : \A dbok \in BOOLEAN :
       IsActive(ledger, u.did) => ~check_criteria(u, ledger, dbok)
  /\ InFollowUser => ~IsActive(ledger, Candidate.did)

\* An already followed account comes up again in a batch and is filtered.
C1_Witness ==
  /\ wpc = "loop"
  /\ IsActive(ledger, Candidate.did)
  /\ HandleMatches(Candidate)

\* C2: quota bound.  The rows committed by follow_user since the counters
\* were last set to zero never number more than DAILY_FOLLOW_LIMIT.
C2_QuotaBound == window_records <= DAILY_FOLLOW_LIMIT

\* The quota is filled while the batch still holds a user that passes both
\* tests of the filter.
C2_Witness ==
  /\ window_records = DAILY_FOLLOW_LIMIT
  /\ wpc = "sleep_delay"
  /\ Len(suggestions) > 1
  /\ check_criteria(suggestions[2], ledger, TRUE)

\* The rows of two ledgers are the same but for the time that has passed.
SameRows(l1, l2) ==
  \A x \in DIDs :
    /\ l1[x].present = l2[x].present
    /\ l1[x].present => l1[x].unfollowed = l2[x].unfollowed

\* l2 is l1 with one new active row, for did.
OneRowAdded(l1, l2, did) ==
  /\ ~l1[did].present
  /\ IsActive(l2, did)
  /\ \A x \in DIDs \ {did} : l2[x] = l1[x]

C7_FollowRetry ==
  [][ /\ (wpc = "follow" /\ wpc' = "follow" /\ attempt' # attempt) =>
           /\ attempt = 1 /\ attempt' = 2
           /\ SameRows(ledger, ledger')
           /\ follow_count' = follow_count
      /\ (wpc = "insert" /\ wpc' = "sleep_delay") =>
           /\ follow_count' = follow_count + 1
           /\ OneRowAdded(ledger, ledger', Candidate.did)
      /\ (wpc = "follow" /\ wpc' = "except") =>
           /\ attempt = 2
           /\ exc' = "RetryError"
           /\ SameRows(ledger, ledger')
           /\ follow_count' = follow_count
      /\ (wpc = "except" /\ WorkerMoves) => wpc' = "sleep_pause"
      /\ (wpc' \in {"follow", "insert"}) => attempt' \in 1..2
    ]_vars

\* follow_user has returned True on its second attempt.
C7_Witness ==
  /\ wpc = "sleep_delay"
  /\ attempt = 2
  /\ IsActive(ledger, Candidate.did)

\* C10: no speculative write.  Every row of the ledger is for a did whose
\* client.follow call has returned; a row appears only in the INSERT step of a
\* follow_user attempt whose client.follow returned; and a client.follow that
\* raises leaves the rows as they were.
C10_NoSpeculativeWrite ==
  /\ [](\A x \in DIDs : ledger[x].present => x \in follow_ok)
  /\ [][ /\ \A x \in DIDs :
              (~ledger[x].present /\ ledger'[x].present) =>
                 /\ wpc = "insert"
                 /\ Candidate.did = x
                 /\ x \in follow_ok
         /\ (wpc = "follow" /\ following' = following) => SameRows(ledger, ledger')
       ]_vars

\* A row has been committed by a first attempt whose client.follow returned.
C10_Witness ==
  /\ wpc = "sleep_delay"
  /\ attempt = 1
  /\ IsActive(ledger, Candidate.did)
  /\ Candidate.did \in follow_ok

\* C4: quota recovery.  Whenever the worker finds the quota used up, the
\* counters are reset in the end (or the process is stopped from outside).
C4_QuotaRecovery ==
  (wpc = "quota" /\ follow_count >= DAILY_FOLLOW_LIMIT)
    ~> (follow_count = 0 \/ exit_cause # "none")

C6_PermanentNegativeCache ==
  /\ [][\A x \in DIDs : ledger[x].present => ledger'[x].present]_vars
  /\ [](InFollowUser =>
          ~(ledger[Candidate.did].present /\ ledger[Candidate.did].unfollowed))

\* C8: periodic posting.  Once the follow worker has been started, daily_post
\* is called again in the end (or the process is stopped from outside).
C8_PeriodicPosting ==
  [](mpc = "join" => <>(mpc = "post" \/ exit_cause # "none"))

\* C9: generation failure is non-fatal.  After a failed text generation no
\* post is being published, daily_post sleeps one hour, and the process has
\* not been ended by the failure.
C9_GenerationFailureNonFatal ==
  gen \in GenFailures =>
    /\ exit_cause # "SystemExit"
    /\ mpc # "publish"
    /\ mpc = "backoff" => main_sleeping = 60 * 60

\* The accounts of Users whose handle, in lower case, contains "bsky" or
\* "sky": "sky", "BSKY" and "xSkyx", not "skxy".
MatchingDids == {"d1", "d2", "d3"}

\* C11: filter correctness.  With a SELECT that works, check_criteria
\* returns True exactly for a user whose lower-cased handle contains one of
\* REQUIRED_TERMS and whose did has no active row; with a SELECT that raises
\* it returns False.  The filter step changes neither the ledger nor the
\* counters and never ends at the handler of the cycle; follow_user starts
\* only for a user it accepted, and a rejected user is passed over.
C11_FilterCorrectness ==
  /\ [](\A u \in Users :
          /\ check_criteria(u, ledger, TRUE)
               <=> (u.did \in MatchingDids /\ ~IsActive(ledger, u.did))
          /\ ~check_criteria(u, ledger, FALSE))
  /\ [][ (wpc = "loop" /\ WorkerMoves) =>
           /\ ledger' = ledger
           /\ following' = following
           /\ follow_count' = follow_count
           /\ window_over' = window_over
           /\ window_records' = window_records
           /\ wpc' # "except" /\ exc' = exc
           /\ wpc' = "follow" =>
                 /\ Candidate.did \in MatchingDids
                 /\ ~IsActive(ledger, Candidate.did)
                 /\ suggestions' = suggestions
           /\ wpc' # "follow" => suggestions' = Tail(suggestions)
       ]_vars

\* The filter has accepted the account with the upper-case handle while the
\* ledger holds an active row of another account.
C11_Witness ==
  /\ wpc = "follow"
  /\ attempt = 1
  /\ Candidate.did = "d2"
  /\ ~ledger["d2"].present
  /\ \E x \in DIDs : IsActive(ledger, x)

\* C12: window reset.  The counters are reset at each 24-hour boundary after
\* start_time, whatever the count: whenever the worker tests the quota with
\* start_time + 24h in the past, follow_count is 0 (no follow of the window
\* that is over is counted against the next one).
C12_WindowReset ==
  (wpc = "quota" /\ window_over) => follow_count = 0

\* C13: sliding-window bound.  The rows committed in the last 24 hours (those
\* of the running window while it is not over, and those of the window
\* before that are less than 24 hours old) never number more than
\* DAILY_FOLLOW_LIMIT.
C13_SlidingWindowBound ==
  ~window_over => carried + window_records <= DAILY_FOLLOW_LIMIT

\* C14: generic follow failures are retried and surfaced.  Every client.follow
\* call that fails, whatever the failure, is followed by a second attempt
\* while the call was the first, and ends follow_user with an exception at
\* the handler of the cycle when it was the second.
C14_GenericFailureRetried ==
  [][ ( /\ wpc = "follow"
        /\ mpc' # "exited"
        /\ (wpc' # "follow" \/ attempt' # attempt)
        /\ wpc' # "insert" ) =>
          IF attempt < 2
            THEN wpc' = "follow" /\ attempt' = attempt + 1
            ELSE wpc' = "except" /\ exc' # "none"
    ]_vars

\* C15: the sweep never blocks the cycle.  Whatever the outcome of
\* check_unfollows, also an exception, the worker goes on from the sweep to
\* the quota test of the same iteration.
C15_SweepNeverBlocks ==
  [][ (wpc = "sweep" /\ WorkerMoves) => wpc' = "quota" ]_vars

\* C16: pacing.  A follow_user that returns True is followed by a sleep of a
\* length in [FOLLOW_DELAY_MIN, FOLLOW_DELAY_MAX], and no client.follow call
\* returns while an earlier one of the worker has returned without such a
\* sleep since.
C16_Pacing ==
  [][ /\ (wpc = "insert" /\ WorkerMoves /\ follow_count' # follow_count) =>
           /\ wpc' = "sleep_delay"
           /\ sleeping' \in FOLLOW_DELAY_MIN..FOLLOW_DELAY_MAX
      /\ (wpc = "follow" /\ wpc' = "insert") => ~unpaced
    ]_vars

\* C17: crash durability.  Outside the two statements of follow_user between
\* the return of client.follow and the commit, every account the agent
\* follows on the remote service has an active row in the ledger, whether
\* follow_user returned True or False and whether or not the process has
\* exited.
C17_CrashDurability ==
  wpc # "insert" => \A x \in following : IsActive(ledger, x)

\* C18: post and follow worker are sequenced.  While run() schedules,
\* generates or publishes a post no follow worker is alive; a worker is
\* started only when none exists, by run() between a completed daily_post
\* and the join; and run() reaches the start of the thread only from the
\* return of daily_post.
C18_PostBeforeWorker ==
  /\ [](mpc \in {"schedule", "post", "publish", "backoff", "start"} => wpc = "idle")
  /\ [][ (wpc = "idle" /\ wpc' # "idle") =>
           /\ mpc = "start" /\ mpc' = "join"
           /\ gen = "none" /\ main_sleeping = 0
       ]_vars
  /\ [][ (mpc # "start" /\ mpc' = "start") => mpc \in {"publish", "backoff"} ]_vars

\* The worker is following accounts while run() is blocked in join, after a
\* daily_post that has returned.
C18_Witness ==
  /\ mpc = "join"
  /\ wpc = "sleep_delay"
  /\ follow_count > 0
  /\ gen = "none"

\* C19: orderly shutdown.  run() ends only by an interrupt of the process;
\* when the process has exited the connection is closed; and the worker
\* executes no statement of its sweep or of follow_user on a connection that
\* has been closed.
C19_OrderlyShutdown ==
  /\ [](mpc \in {"closing", "exited"} => exit_cause = "KeyboardInterrupt")
  /\ [](mpc = "exited" => ~conn_open)
  /\ [][ (wpc \in {"sweep", "insert"} /\ WorkerMoves) => conn_open ]_vars

====
